---- MODULE Spec2Model ----
(***************************************************************************)
(* ELISA data pipeline: elisa_processor.py (read, average, blank-correct,  *)
(* save) and advanced_elisa_analysis.py (ELISAAnalyzer: load, process,     *)
(* 4PL fit, inversion, outputs).  Floating-point quantities are modelled   *)
(* exactly: a finite value is a normalised rational n/d, the result of a   *)
(* non-rational root is kept as the surd (n/d)^(1/r), and NaN and the      *)
(* infinities are separate values.                                         *)
(***************************************************************************)
EXTENDS Integers, Sequences, FiniteSets, TLC

VARIABLES program, pc, elisa_file, standard_file, elisa_data, standard_data,
          blank_od, curve_params, fit_ret, df, console, files, exit_status

vars == <<program, pc, elisa_file, standard_file, elisa_data, standard_data,
          blank_od, curve_params, fit_ret, df, console, files, exit_status>>

(* ---------------------------------------------------------------- bounds *)
MaxRows == 2
MaxOD == 1

(* ------------------------------------------------------------ arithmetic *)
Abs(i) == IF i < 0 THEN -i ELSE i

Sign(i) == IF i < 0 THEN -1 ELSE IF i = 0 THEN 0 ELSE 1

RECURSIVE GCD(_, _)
GCD(a, b) == IF b = 0 THEN a ELSE GCD(b, a % b)

RECURSIVE IPow(_, _)
IPow(b, e) == IF e = 0 THEN 1 ELSE b * IPow(b, e - 1)

\* the rational n/d (d # 0) in lowest terms with a positive denominator
Rat(n, d) ==
    LET g == GCD(Abs(n), Abs(d))
    IN  [k |-> "num", n |-> (Sign(d) * n) \div g, d |-> Abs(d) \div g, r |-> 1]

Num(i) == Rat(i, 1)

NaN == [k |-> "nan", n |-> 0, d |-> 1, r |-> 1]

Inf == [k |-> "inf", n |-> 1, d |-> 1, r |-> 1]

NegInf == [k |-> "inf", n |-> -1, d |-> 1, r |-> 1]

None == [k |-> "none", n |-> 0, d |-> 1, r |-> 1]

IsNum(v) == v.k = "num"

FAdd(a, b) ==
    IF IsNum(a) /\ IsNum(b) THEN Rat(a.n * b.d + b.n * a.d, a.d * b.d) ELSE NaN

FSub(a, b) ==
    IF IsNum(a) /\ IsNum(b) THEN Rat(a.n * b.d - b.n * a.d, a.d * b.d) ELSE NaN

FMul(a, b) ==
    IF IsNum(a) /\ IsNum(b) THEN Rat(a.n * b.n, a.d * b.d) ELSE NaN

\* float division: x/0 is +-inf (nan for 0/0), never an exception
FDiv(a, b) ==
    IF ~(IsNum(a) /\ IsNum(b)) THEN NaN
    ELSE IF b.n = 0
         THEN (IF a.n = 0 THEN NaN ELSE IF a.n > 0 THEN Inf ELSE NegInf)
         ELSE Rat(a.n * b.d, a.d * b.n)

FLt(a, b) == IsNum(a) /\ IsNum(b) /\ a.n * b.d < b.n * a.d

FLe(a, b) == IsNum(a) /\ IsNum(b) /\ a.n * b.d <= b.n * a.d

FGe(a, b) == FLe(b, a)

\* v ** e for an integer-valued exponent e and a finite v
FPowInt(v, e) ==
    IF ~(IsNum(v) /\ IsNum(e) /\ e.d = 1) THEN NaN
    ELSE IF e.n >= 0 THEN Rat(IPow(v.n, e.n), IPow(v.d, e.n))
    ELSE IF v.n = 0 THEN Inf
    ELSE Rat(IPow(v.d, -e.n), IPow(v.n, -e.n))

\* the exact r-th root of the integer i >= 0, or -1 when it is not an integer
IRoot(i, r) ==
    IF \E p \in 0..i : IPow(p, r) = i
    THEN CHOOSE p \in 0..i : IPow(p, r) = i
    ELSE -1

\* v ** (1/r) for a finite v >= 0 and an integer r >= 1
Root(v, r) ==
    IF IRoot(v.n, r) >= 0 /\ IRoot(v.d, r) >= 0
    THEN Rat(IRoot(v.n, r), IRoot(v.d, r))
    ELSE [k |-> "surd", n |-> v.n, d |-> v.d, r |-> r]

\* base ** (1 / B) for an integer-valued slope B, as float arithmetic gives it:
\* 1/0 is +inf, a negative base with a non-integer exponent is nan
PowRecip(base, B) ==
    IF ~(IsNum(base) /\ IsNum(B) /\ B.d = 1) THEN NaN
    ELSE IF B.n = 0
         THEN (IF Abs(base.n) > base.d THEN Inf
               ELSE IF Abs(base.n) = base.d THEN Num(1) ELSE Num(0))
    ELSE IF Abs(B.n) = 1 THEN FPowInt(base, B)
    ELSE IF base.n < 0 THEN NaN
    ELSE IF B.n > 0 THEN Root(base, B.n)
    ELSE IF base.n = 0 THEN Inf
    ELSE Root(Rat(base.d, base.n), -B.n)

\* C * w where w is the result of PowRecip and C is finite
FScale(C, w) ==
    IF ~IsNum(C) THEN NaN
    ELSE IF w.k = "num" THEN FMul(C, w)
    ELSE IF w.k = "inf"
         THEN (IF C.n = 0 THEN NaN ELSE IF Sign(C.n) * w.n > 0 THEN Inf ELSE NegInf)
    ELSE IF w.k = "surd"
         THEN (IF C.n = 0 THEN Num(0)
               ELSE LET c == Rat(IPow(Abs(C.n), w.r) * w.n, IPow(C.d, w.r) * w.d)
                    IN  [k |-> "surd", n |-> Sign(C.n) * c.n, d |-> c.d, r |-> w.r])
    ELSE NaN

(* --------------------------------------------------------------- labels *)
UpperChar(c) ==
    CASE c = "b" -> "B"
      [] c = "l" -> "L"
      [] c = "a" -> "A"
      [] c = "n" -> "N"
      [] c = "k" -> "K"
      [] c = "s" -> "S"
      [] OTHER -> c

\* str.upper() on a label held as a sequence of characters
Upper(s) == [i \in DOMAIN s |-> UpperChar(s[i])]

BLANK == <<"B", "L", "A", "N", "K">>

Labels == {BLANK, <<"B", "l", "a", "n", "k">>, <<"S", "1">>}

(* ----------------------------------------------------------- data frames *)
NoFrame == <<>>

NoParams == <<>>

\* df[col] = value on one row: adds the column or overwrites it
SetCol(row, col, v) ==
    [c \in (DOMAIN row) \cup {col} |-> IF c = col THEN v ELSE row[c]]

Columns(frame) == IF frame = NoFrame THEN {} ELSE DOMAIN frame[1]

RawRow(s, o1, o2) == [Sample |-> s, OD1 |-> Num(o1), OD2 |-> Num(o2)]

RawRows == {RawRow(s, o1, o2) : s \in Labels, o1 \in 0..MaxOD, o2 \in 0..MaxOD}

ElisaFiles == UNION {[1..n -> RawRows] : n \in 1..MaxRows}

StdRow(s, o, c) ==
    SetCol(RawRow(s, o, o), "Concentration (ng/ml)", Num(c))

StandardRows ==
    { <<StdRow(<<"S", "1">>, 0, 1), StdRow(<<"S", "1">>, 1, 10),
        StdRow(<<"S", "1">>, 2, 100), StdRow(<<"S", "1">>, 3, 1000)>>,
      <<StdRow(BLANK, 2, 1), StdRow(<<"S", "1">>, 1, 10),
        StdRow(<<"S", "1">>, 3, 100), StdRow(<<"S", "1">>, 2, 1000)>> }

\* an input path: either pd.read_csv parses it into rows or it raises
Readable(rows) == [readable |-> TRUE, rows |-> rows]

Unreadable == [readable |-> FALSE, rows |-> NoFrame]

ElisaInputs == {Readable(f) : f \in ElisaFiles} \cup {Unreadable}

StandardInputs == {Readable(f) : f \in StandardRows} \cup {Unreadable}

(* ------------------------------------------------- elisa_processor.py *)
\* the mean rounded down to a whole OD unit
calculate_average_od_Rounded(frame) ==
    [i \in DOMAIN frame |->
        SetCol(frame[i], "AverageOD",
               LET sum == FAdd(frame[i]["OD1"], frame[i]["OD2"])
               IN  Num(sum.n \div (2 * sum.d)))]

\* df['AverageOD'] = (df['OD1'] + df['OD2']) / 2
calculate_average_od(frame) ==
    [i \in DOMAIN frame |->
        SetCol(frame[i], "AverageOD",
               FDiv(FAdd(frame[i]["OD1"], frame[i]["OD2"]), Num(2)))]

\* the row positions where Sample.str.upper() equals the identifier uppercased
BlankMask(frame, name) ==
    {i \in DOMAIN frame : Upper(frame[i]["Sample"]) = Upper(name)}

\* .values[0]: the first selected row in frame order
First(mask) == CHOOSE i \in mask : \A j \in mask : i <= j

\* the subtraction without the final overwrite of the blank rows
calculate_corrected_od_NoZeroing(frame, blank_sample_name) ==
    LET blank_mask == BlankMask(frame, blank_sample_name)
    IN  IF blank_mask = {}
        THEN [i \in DOMAIN frame |->
                 SetCol(frame[i], "CorrectedOD", frame[i]["AverageOD"])]
        ELSE LET blank_average == frame[First(blank_mask)]["AverageOD"]
             IN  [i \in DOMAIN frame |->
                    SetCol(frame[i], "CorrectedOD",
                           FSub(frame[i]["AverageOD"], blank_average))]

\* with no blank found, the first row is taken as the blank
calculate_corrected_od_FirstRowAsBlank(frame, blank_sample_name) ==
    LET blank_mask == BlankMask(frame, blank_sample_name)
        blank_average == IF blank_mask = {} THEN frame[1]["AverageOD"]
                         ELSE frame[First(blank_mask)]["AverageOD"]
    IN  [i \in DOMAIN frame |->
            SetCol(frame[i], "CorrectedOD",
                   IF i \in blank_mask THEN Num(0)
                   ELSE FSub(frame[i]["AverageOD"], blank_average))]

\* the blank rows are dropped from the corrected frame
calculate_corrected_od_DropsBlank(frame, blank_sample_name) ==
    LET blank_mask == BlankMask(frame, blank_sample_name)
        blank_average == IF blank_mask = {} THEN Num(0)
                         ELSE frame[First(blank_mask)]["AverageOD"]
        kept == SelectSeq(frame,
                    LAMBDA row : Upper(row["Sample"]) # Upper(blank_sample_name))
    IN  [i \in DOMAIN kept |->
            SetCol(kept[i], "CorrectedOD", FSub(kept[i]["AverageOD"], blank_average))]

\* the last matching row is taken as the blank
calculate_corrected_od_LastBlank(frame, blank_sample_name) ==
    LET blank_mask == BlankMask(frame, blank_sample_name)
        last == CHOOSE i \in blank_mask : \A j \in blank_mask : j <= i
    IN  IF blank_mask = {}
        THEN [i \in DOMAIN frame |->
                 SetCol(frame[i], "CorrectedOD", frame[i]["AverageOD"])]
        ELSE [i \in DOMAIN frame |->
                 SetCol(frame[i], "CorrectedOD",
                        IF i \in blank_mask THEN Num(0)
                        ELSE FSub(frame[i]["AverageOD"], frame[last]["AverageOD"]))]

calculate_corrected_od(frame, blank_sample_name) ==
    LET blank_mask == BlankMask(frame, blank_sample_name)
    IN  IF blank_mask = {}
        THEN [i \in DOMAIN frame |->
                 SetCol(frame[i], "CorrectedOD", frame[i]["AverageOD"])]
        ELSE LET blank_average == frame[First(blank_mask)]["AverageOD"]
             IN  [i \in DOMAIN frame |->
                    SetCol(frame[i], "CorrectedOD",
                           IF i \in blank_mask THEN Num(0)
                           ELSE FSub(frame[i]["AverageOD"], blank_average))]

\* what calculate_corrected_od prints
CorrectedODMessages(frame, blank_sample_name) ==
    IF BlankMask(frame, blank_sample_name) = {}
    THEN {"Warning: No blank sample found", "Setting CorrectedOD equal to AverageOD"}
    ELSE {"Blank average OD", "Calculated CorrectedOD"}

ReadElisaData ==
    /\ pc = "read_elisa_data"
    /\ IF elisa_file.readable
       THEN /\ df' = elisa_file.rows
            /\ console' = console \cup {"Successfully loaded data"}
            /\ pc' = "calculate_average_od"
            /\ UNCHANGED exit_status
       ELSE /\ console' = console \cup {"Error reading file"}
            /\ pc' = "exited"
            /\ exit_status' = 1
            /\ UNCHANGED df
    /\ UNCHANGED <<program, elisa_file, standard_file, elisa_data, standard_data,
                   blank_od, curve_params, fit_ret, files>>

CalculateAverageOD ==
    /\ pc = "calculate_average_od"
    /\ df' = calculate_average_od(df)
    /\ console' = console \cup {"Calculated AverageOD from duplicates"}
    /\ pc' = "calculate_corrected_od"
    /\ UNCHANGED <<program, elisa_file, standard_file, elisa_data, standard_data,
                   blank_od, curve_params, fit_ret, files, exit_status>>

CalculateCorrectedOD ==
    /\ pc = "calculate_corrected_od"
    /\ df' = calculate_corrected_od(df, BLANK)
    /\ console' = console \cup CorrectedODMessages(df, BLANK)
    /\ pc' = "display_results_summary"
    /\ UNCHANGED <<program, elisa_file, standard_file, elisa_data, standard_data,
                   blank_od, curve_params, fit_ret, files, exit_status>>

DisplayResultsSummary ==
    /\ pc = "display_results_summary"
    /\ console' = console \cup {"ELISA DATA PROCESSING SUMMARY"}
    /\ pc' = "save_results"
    /\ UNCHANGED <<program, elisa_file, standard_file, elisa_data, standard_data,
                   blank_od, curve_params, fit_ret, df, files, exit_status>>

SaveResults ==
    /\ pc = "save_results"
    /\ files' = files \cup {"elisa_result.csv"}
    /\ console' = console \cup {"Results saved", "Pipeline completed successfully!"}
    /\ pc' = "done"
    /\ exit_status' = 0
    /\ UNCHANGED <<program, elisa_file, standard_file, elisa_data, standard_data,
                   blank_od, curve_params, fit_ret, df>>

(* -------------------------------------------- advanced_elisa_analysis.py *)
\* the load error is printed and the run goes on
LoadData_ContinuesOnError ==
    /\ pc = "load_data"
    /\ elisa_data' = IF elisa_file.readable THEN elisa_file.rows ELSE elisa_data
    /\ standard_data' = IF elisa_file.readable /\ standard_file.readable
                        THEN standard_file.rows ELSE standard_data
    /\ console' = console \cup
          (IF elisa_file.readable /\ standard_file.readable
           THEN {"Loaded ELISA data", "Loaded standard data"}
           ELSE {"Error loading data"})
    /\ pc' = "process_elisa_data"
    /\ UNCHANGED <<program, elisa_file, standard_file, blank_od, curve_params,
                   fit_ret, df, files, exit_status>>

LoadData ==
    /\ pc = "load_data"
    /\ IF elisa_file.readable /\ standard_file.readable
       THEN /\ elisa_data' = elisa_file.rows
            /\ standard_data' = standard_file.rows
            /\ console' = console \cup {"Loaded ELISA data", "Loaded standard data"}
            /\ pc' = "process_elisa_data"
            /\ UNCHANGED exit_status
       ELSE /\ elisa_data' = IF elisa_file.readable THEN elisa_file.rows ELSE elisa_data
            /\ console' = console \cup {"Error loading data"}
            /\ pc' = "exited"
            /\ exit_status' = 1
            /\ UNCHANGED standard_data
    /\ UNCHANGED <<program, elisa_file, standard_file, blank_od, curve_params, fit_ret,
                   df, files>>

\* corrected ODs clamped at 0
process_elisa_data_Clamped(frame) ==
    LET averaged == [i \in DOMAIN frame |->
                        SetCol(frame[i], "AverageOD",
                               FDiv(FAdd(frame[i]["OD1"], frame[i]["OD2"]), Num(2)))]
        blank_mask == {i \in DOMAIN frame : Upper(frame[i]["Sample"]) = BLANK}
        blank == IF blank_mask # {} THEN averaged[First(blank_mask)]["AverageOD"]
                 ELSE Num(0)
    IN  [i \in DOMAIN frame |->
            LET c == FSub(averaged[i]["AverageOD"], blank)
            IN  SetCol(averaged[i], "CorrectedOD",
                       IF i \in blank_mask \/ c.n < 0 THEN Num(0) ELSE c)]

\* self.elisa_data after process_elisa_data
process_elisa_data(frame) ==
    LET averaged == [i \in DOMAIN frame |->
                        SetCol(frame[i], "AverageOD",
                               FDiv(FAdd(frame[i]["OD1"], frame[i]["OD2"]), Num(2)))]
        blank_mask == {i \in DOMAIN frame : Upper(frame[i]["Sample"]) = BLANK}
    IN  IF blank_mask # {}
        THEN [i \in DOMAIN frame |->
                 SetCol(averaged[i], "CorrectedOD",
                        IF i \in blank_mask THEN Num(0)
                        ELSE FSub(averaged[i]["AverageOD"],
                                  averaged[First(blank_mask)]["AverageOD"]))]
        ELSE [i \in DOMAIN frame |->
                 SetCol(averaged[i], "CorrectedOD", averaged[i]["AverageOD"])]

\* self.blank_od after process_elisa_data
process_elisa_blank_od(frame) ==
    LET blank_mask == {i \in DOMAIN frame : Upper(frame[i]["Sample"]) = BLANK}
    IN  IF blank_mask # {}
        THEN FDiv(FAdd(frame[First(blank_mask)]["OD1"],
                       frame[First(blank_mask)]["OD2"]), Num(2))
        ELSE Num(0)

ProcessElisaData ==
    /\ pc = "process_elisa_data"
    /\ elisa_data' = process_elisa_data(elisa_data)
    /\ blank_od' = process_elisa_blank_od(elisa_data)
    /\ console' = console \cup
          (IF \E i \in DOMAIN elisa_data : Upper(elisa_data[i]["Sample"]) = BLANK
           THEN {"Blank OD"} ELSE {"Warning: No blank found"})
    /\ pc' = "process_standard_data"
    /\ UNCHANGED <<program, elisa_file, standard_file, standard_data, curve_params,
                   fit_ret, df, files, exit_status>>

\* the standards are corrected like the samples: against a blank row of their
\* own, which is then set to 0
process_standard_data_OwnBlank(frame, blank) ==
    LET averaged == [i \in DOMAIN frame |->
                        SetCol(frame[i], "AverageOD",
                               FDiv(FAdd(frame[i]["OD1"], frame[i]["OD2"]), Num(2)))]
        blank_mask == {i \in DOMAIN frame : Upper(frame[i]["Sample"]) = BLANK}
        own == IF blank_mask # {} THEN averaged[First(blank_mask)]["AverageOD"]
               ELSE blank
    IN  [i \in DOMAIN frame |->
            SetCol(averaged[i], "CorrectedOD",
                   IF i \in blank_mask THEN Num(0)
                   ELSE FSub(averaged[i]["AverageOD"], own))]

\* self.standard_data after process_standard_data, given self.blank_od
process_standard_data(frame, blank) ==
    [i \in DOMAIN frame |->
        LET avg == FDiv(FAdd(frame[i]["OD1"], frame[i]["OD2"]), Num(2))
        IN  SetCol(SetCol(frame[i], "AverageOD", avg),
                   "CorrectedOD", FSub(avg, blank))]

\* with blank_od still None the subtraction raises TypeError: the AverageOD
\* column is already set and the exception ends the run
ProcessStandardData ==
    /\ pc = "process_standard_data"
    /\ IF blank_od = None
       THEN /\ standard_data' =
                  [i \in DOMAIN standard_data |->
                      SetCol(standard_data[i], "AverageOD",
                             FDiv(FAdd(standard_data[i]["OD1"],
                                       standard_data[i]["OD2"]), Num(2)))]
            /\ pc' = "exited"
            /\ exit_status' = 1
            /\ console' = console \cup {"Traceback: TypeError"}
       ELSE /\ standard_data' = process_standard_data(standard_data, blank_od)
            /\ pc' = "fit_standard_curve"
            /\ console' = console \cup {"Processed standard curve data"}
            /\ UNCHANGED exit_status
    /\ UNCHANGED <<program, elisa_file, standard_file, elisa_data, blank_od, curve_params,
                   fit_ret, df, files>>

\* D + (A - D) / (1 + (x / C) ** B)
four_parameter_logistic(x, A, B, C, D) ==
    FAdd(D, FDiv(FSub(A, D), FAdd(Num(1), FPowInt(FDiv(x, C), B))))

Params(A, B, C, D) == <<Num(A), Num(B), Num(C), Num(D)>>

\* parameter vectors the least-squares solver may return in a pipeline run
FitParams == {Params(0, 1, 2, 1), Params(-1, 2, 1, 1)}

\* scipy's curve_fit is a black box: it raises, or it returns some parameters
CurveFitOutcomes ==
    {[raises |-> TRUE, popt |-> NoParams]} \cup
    {[raises |-> FALSE, popt |-> p] : p \in FitParams}

\* on failure the initial guess is kept as the parameters
FitStandardCurve_KeepsGuess ==
    /\ pc = "fit_standard_curve"
    /\ \E out \in CurveFitOutcomes :
          IF out.raises
          THEN /\ fit_ret' = "None"
               /\ console' = console \cup {"Error fitting curve"}
               /\ curve_params' = Params(0, 1, 10, 3)
          ELSE /\ curve_params' = out.popt
               /\ fit_ret' = "r_squared"
               /\ console' = console \cup {"Standard curve fitted successfully"}
    /\ pc' = "calculate_concentrations"
    /\ UNCHANGED <<program, elisa_file, standard_file, elisa_data, standard_data,
                   blank_od, df, files, exit_status>>

\* the except branch leaves self.curve_params as it was and returns None
FitStandardCurve ==
    /\ pc = "fit_standard_curve"
    /\ \E out \in CurveFitOutcomes :
          IF out.raises
          THEN /\ fit_ret' = "None"
               /\ console' = console \cup {"Error fitting curve"}
               /\ UNCHANGED curve_params
          ELSE /\ curve_params' = out.popt
               /\ fit_ret' = "r_squared"
               /\ console' = console \cup {"Standard curve fitted successfully"}
    /\ pc' = "calculate_concentrations"
    /\ UNCHANGED <<program, elisa_file, standard_file, elisa_data, standard_data,
                   blank_od, df, files, exit_status>>

\* the saturation test written with > in place of >=
Concentration_StrictSaturation(row, params) ==
    LET A == params[1]
        B == params[2]
        C == params[3]
        D == params[4]
        od == row["CorrectedOD"]
    IN  IF Upper(row["Sample"]) = BLANK THEN Num(0)
        ELSE IF FLt(D, od) THEN NaN
        ELSE IF FLe(od, A) THEN NaN
        ELSE FScale(C, PowRecip(FSub(FDiv(FSub(D, A), FSub(od, A)), Num(1)), B))

\* the blank row is not skipped: it goes through the range checks and formula
Concentration_BlankNotSkipped(row, params) ==
    LET A == params[1]
        B == params[2]
        C == params[3]
        D == params[4]
        od == row["CorrectedOD"]
    IN  IF FGe(od, D) THEN NaN
        ELSE IF FLe(od, A) THEN NaN
        ELSE FScale(C, PowRecip(FSub(FDiv(FSub(D, A), FSub(od, A)), Num(1)), B))

\* the test against the lower asymptote is missing
Concentration_NoLowerCheck(row, params) ==
    LET A == params[1]
        B == params[2]
        C == params[3]
        D == params[4]
        od == row["CorrectedOD"]
    IN  IF Upper(row["Sample"]) = BLANK THEN Num(0)
        ELSE IF FGe(od, D) THEN NaN
        ELSE FScale(C, PowRecip(FSub(FDiv(FSub(D, A), FSub(od, A)), Num(1)), B))

\* the value appended for one row by the loop of calculate_concentrations
Concentration(row, params) ==
    LET A == params[1]
        B == params[2]
        C == params[3]
        D == params[4]
        od == row["CorrectedOD"]
    IN  IF Upper(row["Sample"]) = BLANK THEN Num(0)
        ELSE IF FGe(od, D) THEN NaN
        ELSE IF FLe(od, A) THEN NaN
        ELSE FScale(C, PowRecip(FSub(FDiv(FSub(D, A), FSub(od, A)), Num(1)), B))

calculate_concentrations(frame, params) ==
    [i \in DOMAIN frame |->
        SetCol(frame[i], "Concentration (ng/ml)", Concentration(frame[i], params))]

CalculateConcentrations ==
    /\ pc = "calculate_concentrations"
    /\ IF curve_params = NoParams
       THEN /\ console' = console \cup {"Error: Standard curve not fitted yet"}
            /\ UNCHANGED elisa_data
       ELSE /\ elisa_data' = calculate_concentrations(elisa_data, curve_params)
            /\ console' = console \cup {"Calculated protein concentrations"}
    /\ pc' = "save_processed_data"
    /\ UNCHANGED <<program, elisa_file, standard_file, standard_data, blank_od,
                   curve_params, fit_ret, df, files, exit_status>>

SaveProcessedData ==
    /\ pc = "save_processed_data"
    /\ files' = files \cup {"elisa_result.csv"}
    /\ console' = console \cup {"Processed data saved"}
    /\ pc' = "plot_results"
    /\ UNCHANGED <<program, elisa_file, standard_file, elisa_data, standard_data,
                   blank_od, curve_params, fit_ret, df, exit_status>>

\* the figure is saved whether or not there is a curve to draw
PlotResults_SavesWithoutCurve ==
    /\ pc = "plot_results"
    /\ files' = files \cup {"elisa_analysis.png"}
    /\ console' = console \cup {"Plots saved"}
    /\ pc' = "generate_report"
    /\ UNCHANGED <<program, elisa_file, standard_file, elisa_data, standard_data,
                   blank_od, curve_params, fit_ret, df, exit_status>>

\* *self.curve_params raises TypeError on None, before plt.savefig; so does the
\* lookup of a Concentration column that was never added
PlotResults ==
    /\ pc = "plot_results"
    /\ IF curve_params = NoParams
          \/ "Concentration (ng/ml)" \notin Columns(elisa_data)
       THEN /\ pc' = "exited"
            /\ exit_status' = 1
            /\ console' = console \cup {"Traceback: TypeError"}
            /\ UNCHANGED files
       ELSE /\ files' = files \cup {"elisa_analysis.png"}
            /\ console' = console \cup {"Plots saved"}
            /\ pc' = "generate_report"
            /\ UNCHANGED exit_status
    /\ UNCHANGED <<program, elisa_file, standard_file, elisa_data, standard_data,
                   blank_od, curve_params, fit_ret, df>>

\* open(output_path, 'w') creates the file before anything is formatted
GenerateReport ==
    /\ pc = "generate_report"
    /\ files' = files \cup {"elisa_report.txt"}
    /\ IF blank_od = None \/ curve_params = NoParams
          \/ "Concentration (ng/ml)" \notin Columns(elisa_data)
       THEN /\ pc' = "exited"
            /\ exit_status' = 1
            /\ console' = console \cup {"Traceback: TypeError"}
       ELSE /\ console' = console \cup {"Report saved"}
            /\ pc' = "complete"
            /\ UNCHANGED exit_status
    /\ UNCHANGED <<program, elisa_file, standard_file, elisa_data, standard_data,
                   blank_od, curve_params, fit_ret, df>>

AnalysisComplete ==
    /\ pc = "complete"
    /\ console' = console \cup {"Analysis complete!"}
    /\ pc' = "done"
    /\ exit_status' = 0
    /\ UNCHANGED <<program, elisa_file, standard_file, elisa_data, standard_data,
                   blank_od, curve_params, fit_ret, df, files>>

(* ------------------------------------------------------- specifications *)
NotExited == -1

\* the first call of each script's main()
FirstStep(prog) ==
    IF prog = "elisa_processor" THEN "read_elisa_data" ELSE "load_data"

\* one run of either program, from its prompt for the input paths
Init ==
    /\ program \in {"elisa_processor", "advanced_elisa_analysis"}
    /\ pc = FirstStep(program)
    /\ elisa_file \in ElisaInputs
    /\ standard_file \in (IF program = "advanced_elisa_analysis"
                          THEN StandardInputs ELSE {Unreadable})
    /\ elisa_data = NoFrame
    /\ standard_data = NoFrame
    /\ blank_od = None
    /\ curve_params = NoParams
    /\ fit_ret = "not called"
    /\ df = NoFrame
    /\ console = {}
    /\ files = {}
    /\ exit_status = NotExited

Next ==
    \/ ReadElisaData
    \/ CalculateAverageOD
    \/ CalculateCorrectedOD
    \/ DisplayResultsSummary
    \/ SaveResults
    \/ LoadData
    \/ ProcessElisaData
    \/ ProcessStandardData
    \/ FitStandardCurve
    \/ CalculateConcentrations
    \/ SaveProcessedData
    \/ PlotResults
    \/ GenerateReport
    \/ AnalysisComplete

Spec == Init /\ [][Next]_vars

(* ---------------------------------------------- inversion in isolation *)
\* sample rows whose replicates agree, with corrected ODs on both sides of
\* and between the asymptotes
InvODs == {Rat(0, 1), Rat(1, 5), Rat(1, 3), Rat(1, 2), Rat(1, 1), Rat(2, 1)}

InvLabels == {<<"B", "l", "a", "n", "k">>, <<"S", "1">>}

InvRows == {[Sample |-> s, OD1 |-> od, OD2 |-> od] : s \in InvLabels, od \in InvODs}

InvFiles == UNION {[1..n -> InvRows] : n \in 1..MaxRows}

\* parameter vectors (A, B, C, D) the solver may return: asymptotes in
\* either order or equal, slopes of both signs and zero
ParamSet ==
    {Params(A, B, C, 1) : A \in {-1, 0, 1, 2}, B \in {-2, -1, 0, 1, 2}, C \in {1, 2}}

InvStandard ==
    <<StdRow(<<"S", "1">>, 0, 1), StdRow(<<"S", "1">>, 1, 10),
      StdRow(<<"S", "1">>, 2, 100), StdRow(<<"S", "1">>, 3, 1000)>>

\* the analyzer after a successful fit_standard_curve, about to invert
InitInv ==
    /\ program = "advanced_elisa_analysis"
    /\ pc = "calculate_concentrations"
    /\ \E rows \in InvFiles :
          /\ elisa_file = Readable(rows)
          /\ elisa_data = process_elisa_data(rows)
          /\ blank_od = process_elisa_blank_od(rows)
          /\ console = {"Loaded ELISA data", "Loaded standard data",
                        "Processed standard curve data",
                        "Standard curve fitted successfully"} \cup
                (IF \E i \in DOMAIN rows : Upper(rows[i]["Sample"]) = BLANK
                 THEN {"Blank OD"} ELSE {"Warning: No blank found"})
    /\ standard_file = Readable(InvStandard)
    /\ standard_data = process_standard_data(InvStandard, blank_od)
    /\ curve_params \in ParamSet
    /\ fit_ret = "r_squared"
    /\ df = NoFrame
    /\ files = {}
    /\ exit_status = NotExited

NextInv == CalculateConcentrations

SpecInv == InitInv /\ [][NextInv]_vars

(* ---------------------------------------- blank correction in isolation *)
\* sample files of up to MaxRows + 1 rows, so that two blank rows can stand
\* beside a sample row; the replicates of a row agree
BlankFileRows == {RawRow(s, o, o) : s \in Labels, o \in 0..MaxOD}

BlankFiles == UNION {[1..n -> BlankFileRows] : n \in 1..(MaxRows + 1)}

\* elisa_processor after read_elisa_data, or an ELISAAnalyzer after load_data
\* whose caller goes on with process_elisa_data (as main does) or calls
\* process_standard_data straight away
InitBlank ==
    /\ program \in {"elisa_processor", "advanced_elisa_analysis"}
    /\ \E rows \in BlankFiles :
          /\ elisa_file = Readable(rows)
          /\ IF program = "elisa_processor"
             THEN /\ df = rows
                  /\ elisa_data = NoFrame
                  /\ standard_file = Unreadable
                  /\ standard_data = NoFrame
                  /\ pc = "calculate_average_od"
                  /\ console = {"Successfully loaded data"}
             ELSE /\ df = NoFrame
                  /\ elisa_data = rows
                  /\ \E std \in StandardRows :
                        /\ standard_file = Readable(std)
                        /\ standard_data = std
                  /\ pc \in {"process_elisa_data", "process_standard_data"}
                  /\ console = {"Loaded ELISA data", "Loaded standard data"}
    /\ blank_od = None
    /\ curve_params = NoParams
    /\ fit_ret = "not called"
    /\ files = {}
    /\ exit_status = NotExited

NextBlank ==
    \/ CalculateAverageOD
    \/ CalculateCorrectedOD
    \/ ProcessElisaData
    \/ ProcessStandardData

SpecBlank == InitBlank /\ [][NextBlank]_vars

(* ------------------------------------------------------------- claims *)
IsBlankRow(row) == Upper(row["Sample"]) = Upper(BLANK)

HasCol(frame, col) == col \in Columns(frame)

\* the sample concentrations have been computed with fitted parameters
Inverted == HasCol(elisa_data, "Concentration (ng/ml)")

\* concentrations the forward model is evaluated at
Xs == {Rat(1, 2), Rat(1, 1), Rat(2, 1), Rat(4, 1)}

\* row i holds the forward model's response to concentration x, strictly
\* between the asymptotes, under parameters with A < D, C > 0, B # 0
ForwardCase(i, x) ==
    LET A == curve_params[1]
        B == curve_params[2]
        C == curve_params[3]
        D == curve_params[4]
        od == elisa_data[i]["CorrectedOD"]
    IN  /\ ~IsBlankRow(elisa_data[i])
        /\ FLt(A, D) /\ C.n > 0 /\ B.n # 0
        /\ od = four_parameter_logistic(x, A, B, C, D)
        /\ FLt(A, od) /\ FLt(od, D)

\* C1: inversion is a left-inverse of the forward 4PL model: a non-blank row
\* whose CorrectedOD is f(x; A, B, C, D), strictly between A and D, gets
\* concentration x
C1_LeftInverse ==
    Inverted =>
        \A i \in DOMAIN elisa_data : \A x \in Xs :
            ForwardCase(i, x) => elisa_data[i]["Concentration (ng/ml)"] = x

\* what the code returns instead on such a row: C * C / x
C1_CodeGivesReciprocal ==
    Inverted =>
        \A i \in DOMAIN elisa_data : \A x \in Xs :
            ForwardCase(i, x) =>
                elisa_data[i]["Concentration (ng/ml)"] =
                    FDiv(FMul(curve_params[3], curve_params[3]), x)

\* C2: a non-blank row gets NaN when CorrectedOD >= D and when
\* CorrectedOD <= A, gets C * ((D - A)/(od - A) - 1)^(1/B) when od is strictly
\* between A and D and is never NaN for another reason; every row gets a
\* value and the run goes on to the next step
C2_RangePolicy ==
    Inverted =>
        /\ Len(elisa_data) = Len(elisa_file.rows)
        /\ pc # "exited" \/ "Calculated protein concentrations" \in console
        /\ pc = "save_processed_data" => exit_status = NotExited
        /\ \A i \in DOMAIN elisa_data :
              LET A == curve_params[1]
                  B == curve_params[2]
                  C == curve_params[3]
                  D == curve_params[4]
                  od == elisa_data[i]["CorrectedOD"]
                  conc == elisa_data[i]["Concentration (ng/ml)"]
                  ratio == FDiv(Rat(D.n * A.d - A.n * D.d, A.d * D.d),
                                Rat(od.n * A.d - A.n * od.d, A.d * od.d))
              IN  ~IsBlankRow(elisa_data[i]) =>
                    /\ (FLe(D, od) \/ FLe(od, A)) => conc = NaN
                    /\ (FLt(A, od) /\ FLt(od, D)) =>
                          /\ conc = FScale(C, PowRecip(FSub(ratio, Num(1)), B))
                          /\ conc # NaN

\* rows on both sides of the range and inside it, in one frame
C2_Witness ==
    /\ Inverted
    /\ pc = "save_processed_data"
    /\ \E i, j \in DOMAIN elisa_data :
          /\ ~IsBlankRow(elisa_data[i]) /\ ~IsBlankRow(elisa_data[j])
          /\ elisa_data[i]["CorrectedOD"] = curve_params[4]
          /\ elisa_data[i]["Concentration (ng/ml)"] = NaN
          /\ FLt(curve_params[1], elisa_data[j]["CorrectedOD"])
          /\ FLt(elisa_data[j]["CorrectedOD"], curve_params[4])
          /\ elisa_data[j]["Concentration (ng/ml)"].k = "surd"

FitFailed == fit_ret = "None"

AfterCalculate ==
    pc \in {"save_processed_data", "plot_results", "generate_report",
            "complete", "done"}
    \/ (pc = "exited" /\ "Processed data saved" \in console)

\* C3: a failed fit returns None and leaves no curve parameters, and the
\* calculate_concentrations that follows computes nothing: it reports that
\* no curve is fitted and the sample data has no Concentration column
C3_FailedFitSkipsInversion ==
    FitFailed =>
        /\ curve_params = NoParams
        /\ "Error fitting curve" \in console
        /\ ~HasCol(elisa_data, "Concentration (ng/ml)")
        /\ Columns(elisa_data) = {"Sample", "OD1", "OD2", "AverageOD", "CorrectedOD"}
        /\ AfterCalculate => "Error: Standard curve not fitted yet" \in console

C3_Witness ==
    /\ FitFailed
    /\ pc = "save_processed_data"
    /\ "Error: Standard curve not fitted yet" \in console
    /\ ~HasCol(elisa_data, "Concentration (ng/ml)")

\* C4: once the fit has failed, no concentration is computed, neither the
\* plot nor the report is produced, the run is never announced as complete,
\* and it can only end with a non-zero exit status after the error reports
C4_NothingPastFailedFit ==
    FitFailed =>
        /\ ~HasCol(elisa_data, "Concentration (ng/ml)")
        /\ "elisa_analysis.png" \notin files
        /\ "elisa_report.txt" \notin files
        /\ "Plots saved" \notin console
        /\ "Report saved" \notin console
        /\ "Analysis complete!" \notin console
        /\ pc \notin {"generate_report", "complete", "done"}
        /\ exit_status # 0
        /\ ~(ENABLED Next) =>
              /\ pc = "exited"
              /\ exit_status = 1
              /\ "Error fitting curve" \in console
              /\ "Error: Standard curve not fitted yet" \in console

\* the run has ended on the failed fit, at plot_results
C4_Witness ==
    /\ FitFailed
    /\ pc = "exited"
    /\ exit_status = 1
    /\ "Traceback: TypeError" \in console
    /\ files = {"elisa_result.csv"}

\* the sample frames that blank correction has been applied to
CorrectedFrames == {f \in {df, elisa_data} : HasCol(f, "CorrectedOD")}

AveragedFrames == {f \in {df, elisa_data} : HasCol(f, "AverageOD")}

BlankRowsOf(f) == {i \in DOMAIN f : IsBlankRow(f[i])}

\* C5: after blank correction every row labelled as the blank, ignoring
\* case, has CorrectedOD exactly 0
C5_BlankIsZero ==
    \A f \in CorrectedFrames :
        \A i \in BlankRowsOf(f) : f[i]["CorrectedOD"] = Num(0)

\* a blank row for which the subtraction itself would not have given 0, and
\* one whose label is not in upper case
C5_Witness ==
    \E f \in CorrectedFrames :
        \E i, j \in BlankRowsOf(f) :
            /\ f[i]["AverageOD"] # f[j]["AverageOD"]
            /\ f[i]["Sample"] # BLANK
            /\ f[i]["AverageOD"] # Num(0)
            /\ f[i]["CorrectedOD"] = Num(0)
            /\ f[j]["CorrectedOD"] = Num(0)

NoBlankWarned ==
    IF program = "elisa_processor"
    THEN "Warning: No blank sample found" \in console
    ELSE "Warning: No blank found" \in console

\* C6: with no blank row, CorrectedOD = AverageOD on every row, the blank
\* value is 0, the warning is printed, and the run goes on to its next step
C6_NoBlankIsNotFatal ==
    \A f \in CorrectedFrames :
        BlankRowsOf(f) = {} =>
            /\ \A i \in DOMAIN f : f[i]["CorrectedOD"] = f[i]["AverageOD"]
            /\ NoBlankWarned
            /\ program = "advanced_elisa_analysis" => blank_od = Num(0)
            /\ pc \in {"display_results_summary", "process_standard_data"} =>
                  exit_status = NotExited
            /\ program = "elisa_processor" => exit_status # 1

\* both programs past the correction of a blank-free frame
C6_Witness ==
    /\ \E f \in CorrectedFrames :
          /\ BlankRowsOf(f) = {}
          /\ \E i \in DOMAIN f : f[i]["CorrectedOD"] = Rat(1, 2)
    /\ pc \in {"done", "fit_standard_curve"}

\* C7: with a blank present, a non-blank row's CorrectedOD is its AverageOD
\* minus the blank's AverageOD, unclamped
C7_SubtractionUnclamped ==
    \A f \in CorrectedFrames :
        BlankRowsOf(f) # {} =>
            \A i \in DOMAIN f \ BlankRowsOf(f) :
                LET a == f[i]["AverageOD"]
                    b == f[First(BlankRowsOf(f))]["AverageOD"]
                    c == f[i]["CorrectedOD"]
                IN  /\ IsNum(c)
                    /\ c.n * a.d * b.d = (a.n * b.d - b.n * a.d) * c.d
                    /\ (a.n * b.d < b.n * a.d) => c.n < 0

\* a sample whose average lies below the blank's
C7_Witness ==
    \E f \in CorrectedFrames :
        \E i \in DOMAIN f \ BlankRowsOf(f) :
            /\ BlankRowsOf(f) # {}
            /\ f[i]["CorrectedOD"].n < 0

\* C8: AverageOD is the exact mean of the row's two replicates
C8_AverageIsMean ==
    \A f \in AveragedFrames \cup
             (IF HasCol(standard_data, "AverageOD") THEN {standard_data} ELSE {}) :
        \A i \in DOMAIN f :
            LET a == f[i]["AverageOD"]
            IN  /\ IsNum(a)
                /\ 2 * a.n * f[i]["OD1"].d * f[i]["OD2"].d =
                     a.d * (f[i]["OD1"].n * f[i]["OD2"].d +
                            f[i]["OD2"].n * f[i]["OD1"].d)

\* a mean that is not a whole number of OD units
C8_Witness ==
    \E f \in AveragedFrames :
        \E i \in DOMAIN f :
            f[i]["AverageOD"] = Rat(1, 2) /\ f[i]["OD1"] # f[i]["OD2"]

\* the run's required inputs: one path for elisa_processor, two for the analyzer
LoadFails ==
    \/ ~elisa_file.readable
    \/ (program = "advanced_elisa_analysis" /\ ~standard_file.readable)

\* C9: when an input cannot be loaded the run exits with a non-zero status,
\* no processing step has run and no output artifact exists
C9_LoadFailureIsFatal ==
    LoadFails =>
        /\ pc \in {FirstStep(program), "exited"}
        /\ pc = "exited" => exit_status = 1
        /\ exit_status \in {NotExited, 1}
        /\ files = {}
        /\ AveragedFrames = {} /\ CorrectedFrames = {}
        /\ df = NoFrame /\ standard_data = NoFrame
        /\ blank_od = None /\ curve_params = NoParams /\ fit_ret = "not called"

\* the analyzer exits although the sample file itself was readable
C9_Witness ==
    /\ LoadFails
    /\ program = "advanced_elisa_analysis"
    /\ elisa_file.readable
    /\ pc = "exited"
    /\ exit_status = 1

\* C10: averaging and correction add the AverageOD and CorrectedOD columns
\* and nothing else: same rows, same order, same Sample, OD1 and OD2
C10_FrameOnlyGrows ==
    \A f \in AveragedFrames :
        /\ Len(f) = Len(elisa_file.rows)
        /\ \A i \in DOMAIN f :
              \A c \in {"Sample", "OD1", "OD2"} : f[i][c] = elisa_file.rows[i][c]
        /\ {"Sample", "OD1", "OD2", "AverageOD"} \subseteq Columns(f)
        /\ Columns(f) \subseteq
              {"Sample", "OD1", "OD2", "AverageOD", "CorrectedOD",
               "Concentration (ng/ml)"}
        /\ HasCol(f, "Concentration (ng/ml)") => HasCol(f, "CorrectedOD")
        /\ HasCol(f, "Concentration (ng/ml)") => f = elisa_data /\ AfterCalculate

\* a corrected frame with a blank row after a sample row
C10_Witness ==
    \E f \in CorrectedFrames :
        /\ Len(f) = 2
        /\ ~IsBlankRow(f[1]) /\ IsBlankRow(f[2])
        /\ f[1]["OD1"] # f[1]["OD2"]
        /\ Columns(f) = {"Sample", "OD1", "OD2", "AverageOD", "CorrectedOD"}

\* C11: in calculate_concentrations every row labelled BLANK, ignoring case,
\* gets concentration 0, whatever the fitted parameters and whatever the
\* range checks or the formula would have given for its CorrectedOD
C11_BlankGetsZero ==
    Inverted =>
        \A i \in BlankRowsOf(elisa_data) :
            elisa_data[i]["Concentration (ng/ml)"] = Num(0)

\* a blank row, not in upper case, whose CorrectedOD lies strictly between
\* the asymptotes, beside a sample row with the same CorrectedOD that the
\* formula gives a non-zero concentration
C11_Witness ==
    /\ Inverted
    /\ \E i \in BlankRowsOf(elisa_data) : \E j \in DOMAIN elisa_data :
          /\ elisa_data[i]["Sample"] # BLANK
          /\ FLt(curve_params[1], elisa_data[i]["CorrectedOD"])
          /\ FLt(elisa_data[i]["CorrectedOD"], curve_params[4])
          /\ elisa_data[i]["Concentration (ng/ml)"] = Num(0)
          /\ ~IsBlankRow(elisa_data[j])
          /\ elisa_data[j]["CorrectedOD"] = elisa_data[i]["CorrectedOD"]
          /\ elisa_data[j]["Concentration (ng/ml)"] # Num(0)
          /\ elisa_data[j]["Concentration (ng/ml)"] # NaN

\* a blank row whose CorrectedOD the range checks would have rejected
C11_WitnessOutOfRange ==
    /\ Inverted
    /\ \E i \in BlankRowsOf(elisa_data) :
          /\ FLe(elisa_data[i]["CorrectedOD"], curve_params[1])
          /\ elisa_data[i]["Concentration (ng/ml)"] = Num(0)

\* C14: with fitted parameters A >= D every non-blank row gets NaN, for
\* every CorrectedOD
C14_ReversedAsymptotesAllNaN ==
    (Inverted /\ FGe(curve_params[1], curve_params[4])) =>
        \A i \in DOMAIN elisa_data \ BlankRowsOf(elisa_data) :
            /\ elisa_data[i]["Concentration (ng/ml)"] = NaN
            /\ \/ FGe(elisa_data[i]["CorrectedOD"], curve_params[4])
               \/ FLe(elisa_data[i]["CorrectedOD"], curve_params[1])

\* A > D with one row below D and one row above A, both NaN
C14_Witness ==
    /\ Inverted
    /\ FLt(curve_params[4], curve_params[1])
    /\ \E i, j \in DOMAIN elisa_data \ BlankRowsOf(elisa_data) :
          /\ FLt(elisa_data[i]["CorrectedOD"], curve_params[4])
          /\ FLe(curve_params[1], elisa_data[j]["CorrectedOD"])
          /\ elisa_data[i]["Concentration (ng/ml)"] = NaN
          /\ elisa_data[j]["Concentration (ng/ml)"] = NaN

\* A = D: a row exactly on the common asymptote
C14_WitnessEqual ==
    /\ Inverted
    /\ curve_params[1] = curve_params[4]
    /\ \E i \in DOMAIN elisa_data \ BlankRowsOf(elisa_data) :
          /\ elisa_data[i]["CorrectedOD"] = curve_params[1]
          /\ elisa_data[i]["Concentration (ng/ml)"] = NaN

\* C12: when several rows match the blank identifier, the value subtracted
\* from every other row, and recorded as blank_od, is the AverageOD of the
\* first match in input order
C12_FirstBlankIsUsed ==
    \A f \in CorrectedFrames :
        Cardinality(BlankRowsOf(f)) >= 2 =>
            LET first == CHOOSE i \in BlankRowsOf(f) :
                            \A j \in BlankRowsOf(f) : i <= j
                b == FDiv(FAdd(elisa_file.rows[first]["OD1"],
                               elisa_file.rows[first]["OD2"]), Num(2))
            IN  /\ \A i \in DOMAIN f \ BlankRowsOf(f) :
                      LET a == f[i]["AverageOD"]
                          c == f[i]["CorrectedOD"]
                      IN  IsNum(c) /\ c.n * a.d * b.d = (a.n * b.d - b.n * a.d) * c.d
                /\ (f = elisa_data /\ program = "advanced_elisa_analysis") =>
                      blank_od = b

\* a sample row after two blank rows whose averages differ: the result is
\* neither the subtraction of the later blank nor of the blanks' mean
C12_Witness ==
    \E f \in CorrectedFrames :
        \E i, j \in BlankRowsOf(f) : \E m \in DOMAIN f \ BlankRowsOf(f) :
            /\ i < j
            /\ \A h \in BlankRowsOf(f) : i <= h
            /\ f[i]["AverageOD"] # f[j]["AverageOD"]
            /\ f[m]["CorrectedOD"] = FSub(f[m]["AverageOD"], f[i]["AverageOD"])
            /\ f[m]["CorrectedOD"] # FSub(f[m]["AverageOD"], f[j]["AverageOD"])
            /\ f[m]["CorrectedOD"] #
                  FSub(f[m]["AverageOD"],
                       FDiv(FAdd(f[i]["AverageOD"], f[j]["AverageOD"]), Num(2)))

\* the blank value process_elisa_data records for the corrected sample frame
RecordedBlank ==
    IF BlankRowsOf(elisa_data) = {} THEN Num(0)
    ELSE elisa_data[First(BlankRowsOf(elisa_data))]["AverageOD"]

\* C13: process_standard_data corrects every standard row, a row labelled
\* BLANK included, with the blank value recorded by the preceding
\* process_elisa_data (AverageOD - blank_od; AverageOD itself when the samples
\* had no blank); called before process_elisa_data it does not complete
C13_StandardsUseSampleBlank ==
    /\ HasCol(standard_data, "CorrectedOD") =>
          /\ HasCol(elisa_data, "CorrectedOD")
          /\ blank_od = RecordedBlank
          /\ \A i \in DOMAIN standard_data :
                LET a == standard_data[i]["AverageOD"]
                    c == standard_data[i]["CorrectedOD"]
                IN  /\ IsNum(c)
                    /\ c.n * a.d * blank_od.d =
                          (a.n * blank_od.d - blank_od.n * a.d) * c.d
                    /\ BlankRowsOf(elisa_data) = {} => c = a
    /\ (blank_od = None /\ HasCol(standard_data, "AverageOD")) =>
          /\ ~HasCol(standard_data, "CorrectedOD")
          /\ pc = "exited"
          /\ exit_status = 1
    /\ (blank_od = None /\ pc = "exited") => HasCol(standard_data, "AverageOD")

\* a standard row labelled BLANK keeps a non-zero CorrectedOD, corrected by a
\* non-zero blank taken from the samples
C13_Witness ==
    /\ HasCol(standard_data, "CorrectedOD")
    /\ blank_od # Num(0)
    /\ \E i \in DOMAIN standard_data :
          /\ IsBlankRow(standard_data[i])
          /\ standard_data[i]["CorrectedOD"] # Num(0)
          /\ standard_data[i]["CorrectedOD"] # standard_data[i]["AverageOD"]

\* process_standard_data called first: the run ends in the TypeError
C13_WitnessCalledFirst ==
    /\ blank_od = None
    /\ pc = "exited"
    /\ exit_status = 1
    /\ HasCol(standard_data, "AverageOD")
    /\ ~HasCol(standard_data, "CorrectedOD")
====
